---- MODULE Spec2Model ----
(***************************************************************************)
(* Model of the voxel core of Minecraft-Clone:                             *)
(*   - the chunk mesh builder (src/src/engine.rs, State::build_chunk and   *)
(*     its helpers get_block_face, get_mesh_texture_and_pos,               *)
(*     get_texture_coords),                                                *)
(*   - world construction (src/src/lib.rs, create_terrain and chunk_gen),  *)
(*   - the player update (src/src/player.rs).                              *)
(*                                                                         *)
(* Numbers.  Lengths are kept as integers:                                 *)
(*   - vertex positions are in HALF blocks (pos +/- 0.5 is 2*pos +/- 1),   *)
(*   - texture coordinates are in units of 1/NUM_SPRITES_IN_TEXTURE,       *)
(*   - a Vec is a sequence; the source's index i is position i + 1, and    *)
(*     indexing past the end (a Rust panic) is an index beyond Len.        *)
(* The source's literal 16 (blocks per chunk side), 30 (chunk height) and  *)
(* 16 (chunks per lattice row) are scaled to CHUNK_SIZE, CHUNK_HEIGHT and  *)
(* LATTICE; the literal 15 is CHUNK_SIZE - 1.  CHUNK_SIZE - 1 is kept      *)
(* larger than every extent of the grid of lib.rs chunk_gen (4 x 4 x 6),   *)
(* as 15 is in the source.                                                 *)
(*                                                                         *)
(* Three specifications share the variables:                               *)
(*   SpecMesh        one call of build_chunk on inputs drawn at Init,      *)
(*   SpecPlayer      key events, mouse events and updates of the Player,   *)
(*   create_terrain  the loop of lib.rs create_terrain, slot by slot.      *)
(* A variable a specification does not use keeps an idle value.            *)
(***************************************************************************)
EXTENDS Integers, Sequences, FiniteSets, TLC

VARIABLES
    call,      \* the arguments of one call of build_chunk
    origin,    \* where the arguments of that call come from
    mesh,      \* the outcome of that call
    chunks,    \* the array of chunks
    player,    \* the Player
    camera,    \* the Camera
    process,   \* the running program: status, panic, events so far, overflow checks
    terrain    \* create_terrain: loop index, last mesh build, returned

meshVars == <<call, origin, mesh>>
vars == <<call, origin, mesh, chunks, player, camera, process, terrain>>

---------------------------------------------------------------------------
(* Bounds *)

CHUNK_SIZE == 7

CHUNK_HEIGHT == 4

LATTICE == 3

MaxSeed == 1

---------------------------------------------------------------------------
(* Data: lib.rs Block / BlockType, Option, Vec *)

BlockType == {"Air", "Water", "Grass", "Stone"}

Face == {"Top", "Bottom", "Left", "Right", "Back", "Front"}

None == [some |-> FALSE]

Some(v) == [some |-> TRUE, val |-> v]

VecLen(v) == Len(v)

\* v[i] of the source, i counted from 0.
At(v, i) == v[i + 1]

InVec(v, i) == i >= 0 /\ i < Len(v)

\* blocks[x][y][z] of the source.
Blk(blocks, x, y, z) == blocks[x + 1][y + 1][z + 1]

\* Block as the player reads it: is_solid is derived at construction.
NewBlock(t) == [block_type |-> t, is_solid |-> (t = "Grass")]

---------------------------------------------------------------------------
(* Texture atlas: get_texture_coords, in units of 1/NUM_SPRITES_IN_TEXTURE *)

NUM_SPRITES_IN_TEXTURE == 16

\* Mutant of get_texture_coords: the sprite size is taken as the whole
\* texture (1.0) instead of 1/NUM_SPRITES_IN_TEXTURE.
get_texture_coords_whole_texture(index) ==
    LET row == index \div NUM_SPRITES_IN_TEXTURE
        col == index % NUM_SPRITES_IN_TEXTURE
        min_x == col
        max_x == min_x + NUM_SPRITES_IN_TEXTURE
        min_y == row
        max_y == min_y + NUM_SPRITES_IN_TEXTURE
    IN  << <<min_x, min_y>>, <<max_x, max_y>>, <<min_x, max_y>>, <<max_x, min_y>> >>

get_texture_coords(index) ==
    LET row == index \div NUM_SPRITES_IN_TEXTURE
        col == index % NUM_SPRITES_IN_TEXTURE
        min_x == col
        max_x == min_x + 1
        min_y == row
        max_y == min_y + 1
    IN  << <<min_x, min_y>>, <<max_x, max_y>>, <<min_x, max_y>>, <<max_x, min_y>> >>

\* The per-face corner template of get_mesh_texture_and_pos, in half blocks:
\* pos is the block centre in blocks, a corner is 2*pos + sign.
FaceSigns(face) ==
    CASE face = "Top"    -> << <<-1, 1, -1>>, <<1, 1, 1>>, <<1, 1, -1>>, <<-1, 1, 1>> >>
      [] face = "Bottom" -> << <<1, -1, -1>>, <<-1, -1, 1>>, <<-1, -1, -1>>, <<1, -1, 1>> >>
      [] face = "Left"   -> << <<-1, -1, 1>>, <<-1, 1, -1>>, <<-1, -1, -1>>, <<-1, 1, 1>> >>
      [] face = "Right"  -> << <<1, -1, -1>>, <<1, 1, 1>>, <<1, -1, 1>>, <<1, 1, -1>> >>
      [] face = "Front"  -> << <<1, -1, 1>>, <<-1, 1, 1>>, <<-1, -1, 1>>, <<1, 1, 1>> >>
      [] face = "Back"   -> << <<-1, -1, -1>>, <<1, 1, -1>>, <<1, -1, -1>>, <<-1, 1, -1>> >>

FaceCorners(face, pos) ==
    [i \in 1..4 |-> << 2 * pos[1] + FaceSigns(face)[i][1],
                       2 * pos[2] + FaceSigns(face)[i][2],
                       2 * pos[3] + FaceSigns(face)[i][3] >>]

\* Mutant of GrassSprite: the grass-above flag is read the wrong way round.
GrassSprite_flag_inverted(face, grass_above) ==
    IF face \in {"Left", "Right", "Back", "Front"}
    THEN (IF grass_above THEN 2 ELSE 1)
    ELSE IF face = "Top" THEN 3 ELSE 1

\* The Grass arm of the sprite match of get_mesh_texture_and_pos.
GrassSprite(face, grass_above) ==
    IF face \in {"Left", "Right", "Back", "Front"}
    THEN (IF grass_above THEN 1 ELSE 2)
    ELSE IF face = "Top" THEN 3 ELSE 1

\* Mutant of get_mesh_texture_and_pos: a block type without a mapping gets
\* sprite 0 silently instead of the todo!() panic.
get_mesh_texture_and_pos_default_sprite(face, block_type, pos, grass_above) ==
    LET vertices == FaceCorners(face, pos)
        index == IF block_type = "Grass" THEN GrassSprite(face, grass_above) ELSE 0
        texture_coords == get_texture_coords(index)
        v(i) == [position |-> vertices[i], tex_coords |-> texture_coords[i]]
    IN  [ok |-> TRUE, val |-> <<v(1), v(2), v(3), v(4)>>]

\* get_mesh_texture_and_pos: the four vertices of a face; every block type
\* other than Grass reaches the todo!() arm, a panic.
get_mesh_texture_and_pos(face, block_type, pos, grass_above) ==
    LET vertices == FaceCorners(face, pos)
    IN  IF block_type # "Grass"
        THEN [ok |-> FALSE, panic |-> "todo"]
        ELSE LET index == GrassSprite(face, grass_above)
                 texture_coords == get_texture_coords(index)
                 v(i) == [position |-> vertices[i], tex_coords |-> texture_coords[i]]
             IN  [ok |-> TRUE, val |-> <<v(1), v(2), v(3), v(4)>>]

---------------------------------------------------------------------------
(* get_block_face.  acc is the pair of output vectors with the panic flag: *)
(* [vertices, indices, panic]; a panicked build appends nothing more.      *)

\* Mutant of PushFace: the indices are counted from the length of the index
\* list instead of base_index.
PushFace_index_base(acc, base_index, face, block, pos, grass_above) ==
    LET r == get_mesh_texture_and_pos(face, block.block_type, pos, grass_above)
        base == Len(acc.indices)
    IN  IF ~r.ok
        THEN [acc EXCEPT !.panic = r.panic]
        ELSE [acc EXCEPT
                !.vertices = acc.vertices \o r.val,
                !.indices = acc.indices \o << base + 3, base + 2, base,
                                              base + 1, base + 2, base + 3 >>]

PushFace(acc, base_index, face, block, pos, grass_above) ==
    LET r == get_mesh_texture_and_pos(face, block.block_type, pos, grass_above)
    IN  IF ~r.ok
        THEN [acc EXCEPT !.panic = r.panic]
        ELSE [acc EXCEPT
                !.vertices = acc.vertices \o r.val,
                !.indices = acc.indices \o << base_index + 3, base_index + 2, base_index,
                                              base_index + 1, base_index + 2, base_index + 3 >>]

\* Mutant of get_block_face: in the neighbour-chunk branch the vertices are
\* appended but the render flag is not set, so no indices follow.
get_block_face_no_render_flag(acc, base_index, face, neighbor_block_option, block, pos, grass_above, neighbor_chunk_block_option) ==
    IF acc.panic # "none" THEN acc
    ELSE IF neighbor_block_option.some
    THEN IF neighbor_block_option.val.block_type = "Air"
         THEN PushFace(acc, base_index, face, block, pos, grass_above)
         ELSE acc
    ELSE IF neighbor_chunk_block_option.some
    THEN IF neighbor_chunk_block_option.val.block_type = "Air"
         THEN [PushFace(acc, base_index, face, block, pos, grass_above)
                 EXCEPT !.indices = acc.indices]
         ELSE acc
    ELSE acc

\* Mutant of get_block_face: a face with no neighbour block and no
\* neighbour-chunk block is rendered.
get_block_face_open_edge(acc, base_index, face, neighbor_block_option, block, pos, grass_above, neighbor_chunk_block_option) ==
    IF acc.panic # "none" THEN acc
    ELSE IF neighbor_block_option.some
    THEN IF neighbor_block_option.val.block_type = "Air"
         THEN PushFace(acc, base_index, face, block, pos, grass_above)
         ELSE acc
    ELSE IF neighbor_chunk_block_option.some
    THEN IF neighbor_chunk_block_option.val.block_type = "Air"
         THEN PushFace(acc, base_index, face, block, pos, grass_above)
         ELSE acc
    ELSE PushFace(acc, base_index, face, block, pos, grass_above)

\* neighbor_block_option and neighbor_chunk_block_option are Options of a
\* Block; the face is rendered when the first is Some(Air), or when the
\* first is None and the second is Some(Air).
get_block_face(acc, base_index, face, neighbor_block_option, block, pos, grass_above, neighbor_chunk_block_option) ==
    IF acc.panic # "none" THEN acc
    ELSE IF neighbor_block_option.some
    THEN IF neighbor_block_option.val.block_type = "Air"
         THEN PushFace(acc, base_index, face, block, pos, grass_above)
         ELSE acc
    ELSE IF neighbor_chunk_block_option.some
    THEN IF neighbor_chunk_block_option.val.block_type = "Air"
         THEN PushFace(acc, base_index, face, block, pos, grass_above)
         ELSE acc
    ELSE acc

---------------------------------------------------------------------------
(* State::build_chunk *)

\* chunk.map_or(None, |chunk| Some(&chunk[a][b][c])): evaluated eagerly for
\* every non-Air block, so an index outside the neighbour grid panics.
NeighborChunkBlock(chunk_option, a, b, c) ==
    IF ~chunk_option.some THEN [ok |-> TRUE, val |-> None]
    ELSE LET chunk == chunk_option.val
         IN  IF /\ InVec(chunk, a)
                /\ InVec(At(chunk, a), b)
                /\ InVec(At(At(chunk, a), b), c)
             THEN [ok |-> TRUE, val |-> Some(Blk(chunk, a, b, c))]
             ELSE [ok |-> FALSE, panic |-> "index out of bounds"]

\* One lateral face: the neighbour-chunk block is computed first (it may
\* panic), then get_block_face is called with base_index = vertices.len().
LateralFace(acc, face, neighbor, block, pos, grass_above, ncb) ==
    IF acc.panic # "none" THEN acc
    ELSE IF ~ncb.ok THEN [acc EXCEPT !.panic = ncb.panic]
    ELSE get_block_face(acc, Len(acc.vertices), face, neighbor, block, pos,
                        grass_above, ncb.val)

\* Sequencing: the value of the statements so far is computed once and
\* handed to the statements that follow.
Then(acc, rest(_)) == CHOOSE out \in { rest(a) : a \in {acc} } : TRUE

\* Mutant of BuildBlock: the Back face never looks at the block of the
\* chunk itself, only at the neighbour chunk.
BuildBlock_back_outside(acc, blocks, x, y, z, x_offset, z_offset, left_chunk, right_chunk, front_chunk, back_chunk) ==
    LET column == At(blocks, x)
        row == At(column, y)
        block == At(row, z)
    IN  IF acc.panic # "none" \/ block.block_type = "Air" THEN acc
        ELSE
        LET pos == <<x + x_offset, y, z + z_offset>>
            grass_above == /\ y + 1 < VecLen(column)
                           /\ Blk(blocks, x, y + 1, z).block_type = "Grass"
            a1 == Then(acc, LAMBDA a : get_block_face(a, Len(a.vertices), "Top",
                     IF y + 1 < VecLen(column) THEN Some(Blk(blocks, x, y + 1, z)) ELSE None,
                     block, pos, FALSE, None))
            a2 == Then(a1, LAMBDA a : get_block_face(a, Len(a.vertices), "Bottom",
                     IF y > 0 THEN Some(Blk(blocks, x, y - 1, z)) ELSE None,
                     block, pos, FALSE, None))
            a3 == Then(a2, LAMBDA a : LateralFace(a, "Left",
                     IF x > 0 THEN Some(Blk(blocks, x - 1, y, z)) ELSE None,
                     block, pos, grass_above,
                     NeighborChunkBlock(left_chunk, CHUNK_SIZE - 1, y, z)))
            a4 == Then(a3, LAMBDA a : LateralFace(a, "Right",
                     IF x + 1 < VecLen(blocks) THEN Some(Blk(blocks, x + 1, y, z)) ELSE None,
                     block, pos, grass_above,
                     NeighborChunkBlock(right_chunk, 0, y, z)))
            a5 == Then(a4, LAMBDA a : LateralFace(a, "Front",
                     IF z + 1 < VecLen(row) THEN Some(Blk(blocks, x, y, z + 1)) ELSE None,
                     block, pos, grass_above,
                     NeighborChunkBlock(front_chunk, x, y, 0)))
            a6 == Then(a5, LAMBDA a : LateralFace(a, "Back",
                     None,
                     block, pos, grass_above,
                     NeighborChunkBlock(back_chunk, x, y, CHUNK_SIZE - 1)))
        IN  a6

\* The body of the three nested loops for the block at [x][y][z].
BuildBlock(acc, blocks, x, y, z, x_offset, z_offset, left_chunk, right_chunk, front_chunk, back_chunk) ==
    LET column == At(blocks, x)
        row == At(column, y)
        block == At(row, z)
    IN  IF acc.panic # "none" \/ block.block_type = "Air" THEN acc
        ELSE
        LET pos == <<x + x_offset, y, z + z_offset>>
            grass_above == /\ y + 1 < VecLen(column)
                           /\ Blk(blocks, x, y + 1, z).block_type = "Grass"
            a1 == Then(acc, LAMBDA a : get_block_face(a, Len(a.vertices), "Top",
                     IF y + 1 < VecLen(column) THEN Some(Blk(blocks, x, y + 1, z)) ELSE None,
                     block, pos, FALSE, None))
            a2 == Then(a1, LAMBDA a : get_block_face(a, Len(a.vertices), "Bottom",
                     IF y > 0 THEN Some(Blk(blocks, x, y - 1, z)) ELSE None,
                     block, pos, FALSE, None))
            a3 == Then(a2, LAMBDA a : LateralFace(a, "Left",
                     IF x > 0 THEN Some(Blk(blocks, x - 1, y, z)) ELSE None,
                     block, pos, grass_above,
                     NeighborChunkBlock(left_chunk, CHUNK_SIZE - 1, y, z)))
            a4 == Then(a3, LAMBDA a : LateralFace(a, "Right",
                     IF x + 1 < VecLen(blocks) THEN Some(Blk(blocks, x + 1, y, z)) ELSE None,
                     block, pos, grass_above,
                     NeighborChunkBlock(right_chunk, 0, y, z)))
            a5 == Then(a4, LAMBDA a : LateralFace(a, "Front",
                     IF z + 1 < VecLen(row) THEN Some(Blk(blocks, x, y, z + 1)) ELSE None,
                     block, pos, grass_above,
                     NeighborChunkBlock(front_chunk, x, y, 0)))
            a6 == Then(a5, LAMBDA a : LateralFace(a, "Back",
                     IF z > 0 THEN Some(Blk(blocks, x, y, z - 1)) ELSE None,
                     block, pos, grass_above,
                     NeighborChunkBlock(back_chunk, x, y, CHUNK_SIZE - 1)))
        IN  a6

\* The three nested loops: for x in blocks, for y in column, for z in row.
\* A panic ends the build, so every loop stops on it.
RECURSIVE LoopZ(_, _, _, _, _, _, _, _, _, _, _)
LoopZ(acc, blocks, x, y, z, x_offset, z_offset, left_chunk, right_chunk, front_chunk, back_chunk) ==
    IF acc.panic # "none" \/ z = VecLen(At(At(blocks, x), y)) THEN acc
    ELSE Then(BuildBlock(acc, blocks, x, y, z, x_offset, z_offset,
                         left_chunk, right_chunk, front_chunk, back_chunk),
              LAMBDA a : LoopZ(a, blocks, x, y, z + 1, x_offset, z_offset,
                               left_chunk, right_chunk, front_chunk, back_chunk))

RECURSIVE LoopY(_, _, _, _, _, _, _, _, _, _)
LoopY(acc, blocks, x, y, x_offset, z_offset, left_chunk, right_chunk, front_chunk, back_chunk) ==
    IF acc.panic # "none" \/ y = VecLen(At(blocks, x)) THEN acc
    ELSE Then(LoopZ(acc, blocks, x, y, 0, x_offset, z_offset,
                    left_chunk, right_chunk, front_chunk, back_chunk),
              LAMBDA a : LoopY(a, blocks, x, y + 1, x_offset, z_offset,
                               left_chunk, right_chunk, front_chunk, back_chunk))

RECURSIVE LoopX(_, _, _, _, _, _, _, _, _)
LoopX(acc, blocks, x, x_offset, z_offset, left_chunk, right_chunk, front_chunk, back_chunk) ==
    IF acc.panic # "none" \/ x = VecLen(blocks) THEN acc
    ELSE Then(LoopY(acc, blocks, x, 0, x_offset, z_offset,
                    left_chunk, right_chunk, front_chunk, back_chunk),
              LAMBDA a : LoopX(a, blocks, x + 1, x_offset, z_offset,
                               left_chunk, right_chunk, front_chunk, back_chunk))

\* State::build_mesh: the buffers and the element count.
build_mesh(vertices, indices) ==
    [vertex_buffer |-> vertices, index_buffer |-> indices, num_elements |-> Len(indices)]

\* The result of build_chunk: [status |-> "built", mesh |-> Mesh], or
\* [status |-> "panic", panic |-> message] when the build stopped.
build_chunk(blocks, x_offset, z_offset, left_chunk, right_chunk, front_chunk, back_chunk) ==
    Then(LoopX([vertices |-> <<>>, indices |-> <<>>, panic |-> "none"], blocks, 0,
               x_offset, z_offset,
               left_chunk, right_chunk, front_chunk, back_chunk),
         LAMBDA acc :
             IF acc.panic # "none"
             THEN [status |-> "panic", panic |-> acc.panic]
             ELSE [status |-> "built", mesh |-> build_mesh(acc.vertices, acc.indices)])

---------------------------------------------------------------------------
(* Terrain of the world the mesh builder and the player work on: the       *)
(* generator samples a coherent noise at GLOBAL block coordinates and      *)
(* fills a column with Grass below the surface height, Air above.          *)

\* The noise source: a deterministic function of the seed and the global
\* column.  Seed 0 is constant on every chunk footprint (terraces).
sample(seed, gx, gz) ==
    IF seed = 0
    THEN (gx \div CHUNK_SIZE) + 2 * (gz \div CHUNK_SIZE)
    ELSE seed * gx + (seed + 1) * gz + ((gx * gz) % (seed + 1))

surface_height(seed, gx, gz) ==
    IF seed = 0
    THEN 1 + (sample(seed, gx, gz) % (CHUNK_HEIGHT - 1))
    ELSE sample(seed, gx, gz) % (CHUNK_HEIGHT + 1)

\* The block of the world at a global position.
WorldBlock(seed, gx, gy, gz) ==
    NewBlock(IF gy < surface_height(seed, gx, gz) THEN "Grass" ELSE "Air")

\* Chunk index -> world offset of the chunk: row on x, col on z.
ChunkRow(i) == (i \div LATTICE) * CHUNK_SIZE

ChunkCol(i) == (i % LATTICE) * CHUNK_SIZE

NUM_CHUNKS == LATTICE * LATTICE

\* The block grid of chunk i, indexed [x][y][z].
TerrainGrid(seed, i) ==
    [x1 \in 1..CHUNK_SIZE |->
        [y1 \in 1..CHUNK_HEIGHT |->
            [z1 \in 1..CHUNK_SIZE |->
                WorldBlock(seed, (x1 - 1) + ChunkRow(i), y1 - 1, (z1 - 1) + ChunkCol(i))]]]

\* Neighbour-index arithmetic of the lattice.
FrontIndex(i) == i - LATTICE

BackIndex(i) == i + LATTICE

LeftIndex(i) == i + 1

RightIndex(i) == i - 1

HasFront(i) == FrontIndex(i) >= 0

HasBack(i) == BackIndex(i) < NUM_CHUNKS

HasLeft(i) == (i + 1) % LATTICE # 0

HasRight(i) == i % LATTICE # 0

---------------------------------------------------------------------------
(* lib.rs chunk_gen: a 4 x 4 x 6 grid of Grass, whatever the seed. *)

chunk_gen(seed) ==
    [x1 \in 1..4 |-> [y1 \in 1..4 |-> [z1 \in 1..6 |-> [block_type |-> "Grass"]]]]

---------------------------------------------------------------------------
(* Mesh building as a step: the inputs of one call of build_chunk are      *)
(* drawn at Init, BuildChunk applies the function.                         *)

\* Positions at which one block of the generated grid is replaced, to get
\* caves, floating blocks and the block types the generator never makes.
ProbeXZ == { <<0, 0>>, <<CHUNK_SIZE \div 2, CHUNK_SIZE \div 2>>,
             <<CHUNK_SIZE - 1, CHUNK_SIZE - 1>> }

ProbeY == {0, CHUNK_HEIGHT \div 2, CHUNK_HEIGHT - 1}

Overrides ==
    { [at |-> <<p[1], y, p[2]>>, block_type |-> t] : p \in ProbeXZ, y \in ProbeY, t \in BlockType }

NoOverride == [at |-> <<>>, block_type |-> "Air"]

WithOverride(grid, o) ==
    IF o.at = <<>> THEN grid
    ELSE [grid EXCEPT ![o.at[1] + 1][o.at[2] + 1][o.at[3] + 1] = NewBlock(o.block_type)]

\* A call whose grids come from the generated world: chunk index, with the
\* neighbour of each side supplied or absent.
WorldCall(seed, index, o, l, r, f, b) ==
    [blocks |-> WithOverride(TerrainGrid(seed, index), o),
     x_offset |-> ChunkRow(index),
     z_offset |-> ChunkCol(index),
     left_chunk |-> IF l THEN Some(TerrainGrid(seed, LeftIndex(index))) ELSE None,
     right_chunk |-> IF r THEN Some(TerrainGrid(seed, RightIndex(index))) ELSE None,
     front_chunk |-> IF f THEN Some(TerrainGrid(seed, FrontIndex(index))) ELSE None,
     back_chunk |-> IF b THEN Some(TerrainGrid(seed, BackIndex(index))) ELSE None]

\* The call of the edge scenario: chunk 0 of the lattice, grids of
\* chunk_gen, no front and no right neighbour.
GenCall ==
    [blocks |-> chunk_gen(1),
     x_offset |-> 0,
     z_offset |-> 0,
     left_chunk |-> Some(chunk_gen(1)),
     right_chunk |-> None,
     front_chunk |-> None,
     back_chunk |-> Some(chunk_gen(1))]

\* The chunk of the lattice that has all four neighbours.
InteriorChunk == LATTICE + 1

Pending == [status |-> "pending"]

\* The value of a variable a specification does not use.
Idle == [status |-> "idle", panic |-> "none", updates |-> 0, inputs |-> 0, dt |-> 0, mouse |-> FALSE, overflow_checks |-> FALSE]

InitMesh ==
    /\ mesh = Pending
    /\ chunks = <<>> /\ player = Idle /\ camera = Idle /\ process = Idle /\ terrain = Idle
    /\ \/ \E seed \in 0..MaxSeed, index \in 0..(NUM_CHUNKS - 1),
              o \in Overrides \cup {NoOverride}, l, r, f, b \in BOOLEAN :
              /\ l => HasLeft(index)
              /\ r => HasRight(index)
              /\ f => HasFront(index)
              /\ b => HasBack(index)
              /\ o # NoOverride => (index = InteriorChunk /\ l = r /\ r = f /\ f = b)
              /\ origin = [source |-> "world", seed |-> seed, index |-> index, override |-> o]
              /\ call = WorldCall(seed, index, o, l, r, f, b)
       \/ /\ origin = [source |-> "chunk_gen", seed |-> 1, index |-> 0, override |-> NoOverride]
          /\ call = GenCall

BuildChunk ==
    /\ mesh = Pending
    /\ mesh' = build_chunk(call.blocks, call.x_offset, call.z_offset,
                           call.left_chunk, call.right_chunk,
                           call.front_chunk, call.back_chunk)
    /\ UNCHANGED <<call, origin, chunks, player, camera, process, terrain>>

NextMesh == BuildChunk

SpecMesh == InitMesh /\ [][NextMesh]_vars

---------------------------------------------------------------------------
(* The player (src/src/player.rs).                                         *)
(*                                                                         *)
(* Numbers.  local_pos and the camera position are f32 in the source; here *)
(* they are integers in units of 1/POS_SCALE block, so 1.0 is POS_SCALE,   *)
(* 0.1 is POS_SCALE / 10 and 0.01 is POS_SCALE / 100.  The elapsed time dt *)
(* is a whole number of ticks of 1/TICKS_PER_SECOND second, which makes    *)
(* speed * dt a multiple of 1/16 block: every value the model computes is  *)
(* exact in f32 as well.  Angles are in units of 0.0001 rad; the yaw stays *)
(* on the four cardinal directions, where sin and cos are taken as exactly *)
(* 0 and +/-1 (the f32 residue of cos(pi/2), about 4e-8, is left out).     *)
(* usize is USIZE_BITS wide; an overflow panics when the build has         *)
(* overflow checks (debug) and wraps when it has not (release).            *)

POS_SCALE == 1600

TICKS_PER_SECOND == 32

USIZE_BITS == 16

FRAC_PI_2 == 15708

SAFE_FRAC_PI_2 == FRAC_PI_2 - 1

SPEED == 30

SENSITIVITY == 1

MaxUpdates == 3

MaxInputs == 2

USIZE_MODULUS == 2 ^ USIZE_BITS

Ok(v) == [ok |-> TRUE, val |-> v]

Err(msg) == [ok |-> FALSE, panic |-> msg]

\* The result of a usize computation whose mathematical value is n.
Usize(n, overflow_checks) ==
    IF n >= 0 /\ n < USIZE_MODULUS THEN Ok(n)
    ELSE IF overflow_checks THEN Err("arithmetic overflow")
    ELSE Ok(n % USIZE_MODULUS)

\* v[i] of a slice or Vec: v and i are results; a panic on the way stays.
Index(v, i) ==
    IF ~v.ok THEN v
    ELSE IF ~i.ok THEN i
    ELSE IF i.val < Len(v.val) THEN Ok(v.val[i.val + 1])
    ELSE Err("index out of bounds")

\* chunk.blocks[a][b][c]
BlockOf(chunk, a, b, c) ==
    Then(Then(Then(chunk, LAMBDA of : Index(IF of.ok THEN Ok(of.val.blocks) ELSE of, a)),
              LAMBDA plane : Index(plane, b)),
         LAMBDA row : Index(row, c))

\* The first panic of a sequence of results, "none" when all are values.
RECURSIVE FirstPanic(_)
FirstPanic(results) ==
    IF results = <<>> THEN "none"
    ELSE IF ~Head(results).ok THEN Head(results).panic
    ELSE Then(Tail(results), LAMBDA rest : FirstPanic(rest))

\* sin and cos of a yaw on a cardinal direction.
Sin(yaw) == CASE (yaw \div FRAC_PI_2) % 4 = 0 /\ yaw % FRAC_PI_2 = 0 -> 0
              [] (yaw \div FRAC_PI_2) % 4 = 1 /\ yaw % FRAC_PI_2 = 0 -> 1
              [] (yaw \div FRAC_PI_2) % 4 = 2 /\ yaw % FRAC_PI_2 = 0 -> 0
              [] (yaw \div FRAC_PI_2) % 4 = 3 /\ yaw % FRAC_PI_2 = 0 -> -1

Cos(yaw) == Sin(yaw + FRAC_PI_2)

\* engine.rs: Camera::new((0.0, 5.0, 10.0), Deg(-90.0), Deg(-20.0))
Camera_new ==
    [position |-> [x |-> 0, y |-> 5 * POS_SCALE, z |-> 10 * POS_SCALE],
     yaw |-> -FRAC_PI_2,
     pitch |-> -((2 * FRAC_PI_2) \div 9)]

\* Player::new.  The start (30, 29, 30) of the source is the block 14 of
\* chunk row 1 and column 1, one below the top layer.
Player_new(speed, sensitivity) ==
    [amount_left |-> 0, amount_right |-> 0, amount_forward |-> 0,
     amount_backward |-> 0, amount_up |-> 0,
     rotate_horizontal |-> 0, rotate_vertical |-> 0,
     speed |-> speed, fall_speed |-> 30, sensitivity |-> sensitivity,
     jump |-> FALSE, jump_am |-> 0,
     local_pos |-> [x |-> POS_SCALE \div 2, y |-> POS_SCALE \div 2, z |-> 0],
     world_pos |-> [x |-> CHUNK_SIZE + (CHUNK_SIZE - 2),
                    y |-> CHUNK_HEIGHT - 1,
                    z |-> CHUNK_SIZE + (CHUNK_SIZE - 2)]]

VirtualKeyCode == {"W", "Up", "S", "Down", "A", "Left", "D", "Right", "Space", "Escape"}

ElementState == {"Pressed", "Released"}

\* Player::process_keyboard: the player after the call and the value returned.
process_keyboard(self, key, state) ==
    LET amount == IF state = "Pressed" THEN 1 ELSE 0
    IN  CASE key \in {"W", "Up"} -> [self |-> [self EXCEPT !.amount_forward = amount], handled |-> TRUE]
          [] key \in {"S", "Down"} -> [self |-> [self EXCEPT !.amount_backward = amount], handled |-> TRUE]
          [] key \in {"A", "Left"} -> [self |-> [self EXCEPT !.amount_left = amount], handled |-> TRUE]
          [] key \in {"D", "Right"} -> [self |-> [self EXCEPT !.amount_right = amount], handled |-> TRUE]
          [] key = "Space" -> [self |-> [self EXCEPT !.jump = TRUE, !.jump_am = 1], handled |-> TRUE]
          [] OTHER -> [self |-> self, handled |-> FALSE]

\* Player::process_mouse
process_mouse(self, mouse_dx, mouse_dy) ==
    [self EXCEPT !.rotate_horizontal = mouse_dx, !.rotate_vertical = mouse_dy]

\* One of the four boundary transfers of the horizontal move: pos is
\* [local_pos, world_pos, panic]; sign is 1 for "> 1.0" and -1 for "< -1.0".
Transfer(pos, axis, sign, overflow_checks) ==
    IF pos.panic # "none" THEN pos
    ELSE IF sign * pos.local_pos[axis] > POS_SCALE
    THEN LET w == Usize(pos.world_pos[axis] + sign, overflow_checks)
         IN  [local_pos |-> [pos.local_pos EXCEPT ![axis] = @ - sign * POS_SCALE],
              world_pos |-> IF w.ok THEN [pos.world_pos EXCEPT ![axis] = w.val]
                            ELSE pos.world_pos,
              panic |-> IF w.ok THEN "none" ELSE w.panic]
    ELSE pos

\* Mutant of Gravity: the player falls whatever the block below is.
Gravity_ignores_block(pos, cur_chunk, fall, overflow_checks) ==
    IF pos.panic # "none" THEN pos
    ELSE Transfer([pos EXCEPT !.local_pos.y = @ - fall], "y", -1, overflow_checks)

\* The gravity step: the block two cells below, read in cur_chunk.
Gravity(pos, cur_chunk, fall, overflow_checks) ==
    IF pos.panic # "none" THEN pos
    ELSE LET wp == pos.world_pos
             block_bottom == BlockOf(cur_chunk, Ok(wp.x % CHUNK_SIZE),
                                     Usize(wp.y - 2, overflow_checks),
                                     Ok(wp.z % CHUNK_SIZE))
         IN  IF ~block_bottom.ok THEN [pos EXCEPT !.panic = block_bottom.panic]
             ELSE IF block_bottom.val.block_type = "Air"
             THEN LET fallen == [pos EXCEPT !.local_pos.y = @ - fall]
                  IN  Transfer(fallen, "y", -1, overflow_checks)
             ELSE pos

\* Mutant of Rotate: the mouse deltas are not reset.
Rotate_keeps_deltas(self, the_camera, dt) ==
    LET yaw == the_camera.yaw + (self.rotate_horizontal * self.sensitivity * dt) \div TICKS_PER_SECOND
        turned == the_camera.pitch + ((-self.rotate_vertical) * self.sensitivity * dt) \div TICKS_PER_SECOND
        pitch == IF turned < -SAFE_FRAC_PI_2 THEN -SAFE_FRAC_PI_2
                 ELSE IF turned > SAFE_FRAC_PI_2 THEN SAFE_FRAC_PI_2
                 ELSE turned
    IN  [self |-> self,
         camera |-> [the_camera EXCEPT !.yaw = yaw, !.pitch = pitch]]

\* Mutant of Rotate: the pitch is not clamped.
Rotate_unclamped(self, the_camera, dt) ==
    LET yaw == the_camera.yaw + (self.rotate_horizontal * self.sensitivity * dt) \div TICKS_PER_SECOND
        turned == the_camera.pitch + ((-self.rotate_vertical) * self.sensitivity * dt) \div TICKS_PER_SECOND
    IN  [self |-> [self EXCEPT !.rotate_horizontal = 0, !.rotate_vertical = 0],
         camera |-> [the_camera EXCEPT !.yaw = yaw, !.pitch = turned]]

\* The rotation step of update_camera: the mouse deltas turn the camera and
\* are reset, and the pitch is clamped.
Rotate(self, the_camera, dt) ==
    LET yaw == the_camera.yaw + (self.rotate_horizontal * self.sensitivity * dt) \div TICKS_PER_SECOND
        turned == the_camera.pitch + ((-self.rotate_vertical) * self.sensitivity * dt) \div TICKS_PER_SECOND
        pitch == IF turned < -SAFE_FRAC_PI_2 THEN -SAFE_FRAC_PI_2
                 ELSE IF turned > SAFE_FRAC_PI_2 THEN SAFE_FRAC_PI_2
                 ELSE turned
    IN  [self |-> [self EXCEPT !.rotate_horizontal = 0, !.rotate_vertical = 0],
         camera |-> [the_camera EXCEPT !.yaw = yaw, !.pitch = pitch]]

\* Mutant of CameraPosition: the camera follows the offset inside the block only.
CameraPosition_local_only(local_pos, world_pos) ==
    [a \in {"x", "y", "z"} |-> local_pos[a]]

\* The last three statements of update_camera: the camera position.
CameraPosition(local_pos, world_pos) ==
    [a \in {"x", "y", "z"} |-> local_pos[a] + world_pos[a] * POS_SCALE]

\* Player::update_camera.  dt is in ticks.  The result is the player, the
\* camera and the chunks as the call leaves them and the panic that ended
\* it, or "none".
update_camera(self, the_camera, dt, the_chunks, overflow_checks) ==
    LET yaw_sin == Sin(the_camera.yaw)
        yaw_cos == Cos(the_camera.yaw)
        forward == [x |-> yaw_cos, y |-> 0, z |-> yaw_sin]
        right == [x |-> -yaw_sin, y |-> 0, z |-> yaw_cos]
        wp == self.world_pos
        cur_chunk_index == Usize((wp.z \div CHUNK_SIZE) + (LATTICE * (wp.x \div CHUNK_SIZE)),
                                 overflow_checks)
        index_of(n) == IF cur_chunk_index.ok THEN Usize(n, overflow_checks) ELSE cur_chunk_index
        cur_chunk == Index(Ok(the_chunks), cur_chunk_index)
        front_chunk == Index(Ok(the_chunks), index_of(cur_chunk_index.val - LATTICE))
        back_chunk == Index(Ok(the_chunks), index_of(cur_chunk_index.val + LATTICE))
        left_chunk == Index(Ok(the_chunks), index_of(cur_chunk_index.val + 1))
        right_chunk == Index(Ok(the_chunks), index_of(cur_chunk_index.val - 1))
        step == (self.speed * dt * POS_SCALE) \div TICKS_PER_SECOND
        forward_am == [a \in {"x", "y", "z"} |->
                          forward[a] * (self.amount_forward - self.amount_backward) * step]
        right_am == [a \in {"x", "y", "z"} |->
                        right[a] * (self.amount_right - self.amount_left) * step]
        move_am == [a \in {"x", "y", "z"} |-> forward_am[a] + right_am[a]]
        x_in_chunk == Ok(wp.x % CHUNK_SIZE)
        block_right_bottom ==
            IF (wp.z % CHUNK_SIZE) - 1 < 0
            THEN BlockOf(left_chunk, x_in_chunk, Usize(wp.y - 1, overflow_checks),
                         Ok(CHUNK_SIZE - 1))
            ELSE BlockOf(cur_chunk, x_in_chunk, Usize(wp.y - 1, overflow_checks),
                         Ok((wp.z % CHUNK_SIZE) - 1))
        block_right_top ==
            IF (wp.z % CHUNK_SIZE) - 1 < 0
            THEN BlockOf(left_chunk, x_in_chunk, Ok(wp.y), Ok(CHUNK_SIZE - 1))
            ELSE BlockOf(left_chunk, x_in_chunk, Ok(wp.y), Ok((wp.z % CHUNK_SIZE) - 1))
        before_move == Then(<<cur_chunk, front_chunk, back_chunk, left_chunk,
                              right_chunk, block_right_bottom, block_right_top>>,
                            LAMBDA results : FirstPanic(results))
    IN  IF before_move # "none"
        THEN [self |-> self, camera |-> the_camera, chunks |-> the_chunks, panic |-> before_move]
        ELSE
        LET blocked == /\ self.local_pos.x < POS_SCALE \div 10
                       /\ (block_right_bottom.val.is_solid \/ block_right_top.val.is_solid)
                       /\ move_am.x > POS_SCALE \div 100
            moved == [local_pos |-> IF ~blocked
                                    THEN [a \in {"x", "y", "z"} |-> self.local_pos[a] + move_am[a]]
                                    ELSE self.local_pos,
                      world_pos |-> self.world_pos,
                      panic |-> "none"]
            t1 == Then(moved, LAMBDA t : Transfer(t, "x", 1, overflow_checks))
            t2 == Then(t1, LAMBDA t : Transfer(t, "z", 1, overflow_checks))
            t3 == Then(t2, LAMBDA t : Transfer(t, "x", -1, overflow_checks))
            t4 == Then(t3, LAMBDA t : Transfer(t, "z", -1, overflow_checks))
            fall == (self.fall_speed * dt * POS_SCALE) \div TICKS_PER_SECOND
        IN  Then(Then(t4, LAMBDA t : Gravity(t, cur_chunk, fall, overflow_checks)), LAMBDA pos :
            LET placed == [self EXCEPT !.local_pos = pos.local_pos, !.world_pos = pos.world_pos]
            IN  IF pos.panic # "none"
                THEN [self |-> placed, camera |-> the_camera, chunks |-> the_chunks, panic |-> pos.panic]
                ELSE Then(Rotate(placed, the_camera, dt), LAMBDA turned :
                     [self |-> turned.self,
                      camera |-> [turned.camera EXCEPT
                                    !.position = CameraPosition(pos.local_pos, pos.world_pos)],
                      chunks |-> the_chunks,
                      panic |-> "none"]))

\* Mutant of update_player: the update clears a block of the world.
update_player_clears_block(self, the_camera, dt, the_chunks, overflow_checks) ==
    LET r == update_camera(self, the_camera, dt, the_chunks, overflow_checks)
    IN  [r EXCEPT !.chunks[1].blocks[1][1][1] = NewBlock("Air")]

\* Player::update_player
update_player(self, the_camera, dt, the_chunks, overflow_checks) ==
    update_camera(self, the_camera, dt, the_chunks, overflow_checks)

\* The world the player walks on: the lattice of generated chunks (the
\* meshes, which the player never reads, are left out).
PlayerWorld(seed) == [i \in 1..NUM_CHUNKS |-> [blocks |-> TerrainGrid(seed, i - 1)]]

\* Mouse deltas that turn the camera by a quarter turn per tick.
MouseDeltas == {-(FRAC_PI_2 * TICKS_PER_SECOND), 0, FRAC_PI_2 * TICKS_PER_SECOND}

\* Frame times: 31.25 ms and 62.5 ms.
FrameTicks == {1, 2}

InitPlayer ==
    /\ \E seed \in 0..MaxSeed : chunks = PlayerWorld(seed)
    /\ player = Player_new(SPEED, SENSITIVITY)
    /\ camera = Camera_new
    /\ \E oc \in BOOLEAN :
           process = [status |-> "running", panic |-> "none", updates |-> 0, inputs |-> 0,
                      dt |-> 0, mouse |-> FALSE, overflow_checks |-> oc]
    /\ call = Idle /\ origin = Idle /\ mesh = Idle /\ terrain = Idle

ProcessKeyboard ==
    /\ process.status = "running"
    /\ process.inputs < MaxInputs
    /\ \E key \in VirtualKeyCode, state \in ElementState :
           player' = process_keyboard(player, key, state).self
    /\ process' = [process EXCEPT !.inputs = @ + 1]
    /\ UNCHANGED <<call, origin, mesh, chunks, camera, terrain>>

ProcessMouse ==
    /\ process.status = "running"
    /\ process.inputs < MaxInputs
    /\ \E mouse_dx \in MouseDeltas, mouse_dy \in MouseDeltas :
           player' = process_mouse(player, mouse_dx, mouse_dy)
    /\ process' = [process EXCEPT !.inputs = @ + 1, !.mouse = TRUE]
    /\ UNCHANGED <<call, origin, mesh, chunks, camera, terrain>>

UpdatePlayer ==
    /\ process.status = "running"
    /\ process.updates < MaxUpdates
    /\ \E dt \in FrameTicks :
           LET r == update_player(player, camera, dt, chunks, process.overflow_checks)
           IN  /\ player' = r.self
               /\ camera' = r.camera
               /\ chunks' = r.chunks
               /\ process' = [process EXCEPT
                                 !.status = IF r.panic = "none" THEN "running" ELSE "panicked",
                                 !.panic = r.panic,
                                 !.updates = @ + 1,
                                 !.dt = dt,
                                 !.mouse = FALSE]
    /\ UNCHANGED <<call, origin, mesh, terrain>>

NextPlayer == ProcessKeyboard \/ ProcessMouse \/ UpdatePlayer

SpecPlayer == InitPlayer /\ [][NextPlayer]_vars

---------------------------------------------------------------------------
(* One update from a frame in the middle of play.  The player stands on a  *)
(* block of any chunk of the lattice at a height of 2 or more, holds any   *)
(* keys that do not cancel, and has an offset inside the block that walking*)
(* and falling from Player::new produce (start plus or minus whole frames  *)
(* of speed * dt, minus whole blocks).  No mouse event is pending.         *)

\* Block columns of a chunk the player stands in: both rims on x; on z the
\* rim the probe leaves the chunk at, its neighbour and the far rim.
InChunkX == {0, CHUNK_SIZE - 1}

InChunkZ == {0, 1, CHUNK_SIZE - 1}

\* Offsets inside the block: that of Player::new, one that is 1/16 block
\* from the low x boundary, one that has fallen by one frame.
LocalPositions ==
    {[x |-> POS_SCALE \div 2, y |-> POS_SCALE \div 2, z |-> 0],
     [x |-> POS_SCALE \div 16, y |-> POS_SCALE \div 2, z |-> 0],
     [x |-> POS_SCALE \div 2, y |-> POS_SCALE \div 2 - (30 * POS_SCALE) \div TICKS_PER_SECOND, z |-> 0]}

\* Held keys as (pressed, opposite pressed): none, one or the other.
HeldKeys == {<<0, 0>>, <<1, 0>>, <<0, 1>>}

InitUpdate ==
    /\ \E seed \in 0..MaxSeed : chunks = PlayerWorld(seed)
    /\ \E index \in 0..(NUM_CHUNKS - 1), x \in InChunkX, z \in InChunkZ,
          y \in 2..(CHUNK_HEIGHT - 1), local_pos \in LocalPositions,
          ahead \in HeldKeys, aside \in HeldKeys :
           LET world_pos == [x |-> ChunkRow(index) + x, y |-> y, z |-> ChunkCol(index) + z]
           IN  /\ player = [Player_new(SPEED, SENSITIVITY) EXCEPT
                                !.local_pos = local_pos,
                                !.world_pos = world_pos,
                                !.amount_forward = ahead[1],
                                !.amount_backward = ahead[2],
                                !.amount_right = aside[1],
                                !.amount_left = aside[2]]
               /\ camera = [Camera_new EXCEPT !.position = CameraPosition(local_pos, world_pos)]
    /\ \E oc \in BOOLEAN :
           process = [status |-> "running", panic |-> "none", updates |-> MaxUpdates - 1,
                      inputs |-> MaxInputs, dt |-> 0, mouse |-> FALSE, overflow_checks |-> oc]
    /\ call = Idle /\ origin = Idle /\ mesh = Idle /\ terrain = Idle

NextUpdate == UpdatePlayer

SpecUpdate == InitUpdate /\ [][NextUpdate]_vars

---------------------------------------------------------------------------
(* Falling.  The player is somewhere over the world with no key held and   *)
(* no mouse event pending, and the frame loop (ControlFlow::Poll, a redraw *)
(* requested whenever the events are cleared, lib.rs) keeps calling the    *)
(* update: an update that can run is eventually run.  The updates are not  *)
(* counted here: the fall itself is what ends.                             *)

\* Mutant of FallUpdate: the fall carries every whole block of the offset
\* into world_pos.y at once.
FallUpdate_carries_whole_blocks ==
    /\ process.status = "running"
    /\ \E dt \in FrameTicks :
         \E r \in {update_player(player, camera, dt, chunks, process.overflow_checks)} :
           LET whole == IF r.self.local_pos.y < -POS_SCALE THEN 1 ELSE 0
           IN  /\ player' = [r.self EXCEPT !.local_pos.y = @ + whole * POS_SCALE,
                                           !.world_pos.y = @ - whole]
               /\ camera' = r.camera
               /\ chunks' = r.chunks
               /\ process' = [process EXCEPT
                                 !.status = IF r.panic = "none" THEN "running" ELSE "panicked",
                                 !.panic = r.panic,
                                 !.dt = dt,
                                 !.mouse = FALSE]
    /\ UNCHANGED <<call, origin, mesh, terrain>>

\* One frame: state.update(dt) with the player's update in it.
FallUpdate ==
    /\ process.status = "running"
    /\ \E dt \in FrameTicks :
         \E r \in {update_player(player, camera, dt, chunks, process.overflow_checks)} :
               /\ player' = r.self
               /\ camera' = r.camera
               /\ chunks' = r.chunks
               /\ process' = [process EXCEPT
                                 !.status = IF r.panic = "none" THEN "running" ELSE "panicked",
                                 !.panic = r.panic,
                                 !.dt = dt,
                                 !.mouse = FALSE]
    /\ UNCHANGED <<call, origin, mesh, terrain>>

\* Offsets inside the block of a player that has not moved sideways.
FallPositions == {local_pos \in LocalPositions : local_pos.x = POS_SCALE \div 2}

InitFall ==
    /\ \E seed \in 0..MaxSeed : chunks = PlayerWorld(seed)
    /\ \E index \in 0..(NUM_CHUNKS - 1), x \in InChunkX, z \in InChunkZ,
          y \in 2..(CHUNK_HEIGHT - 1), local_pos \in FallPositions :
           LET world_pos == [x |-> ChunkRow(index) + x, y |-> y, z |-> ChunkCol(index) + z]
           IN  /\ player = [Player_new(SPEED, SENSITIVITY) EXCEPT
                                !.local_pos = local_pos,
                                !.world_pos = world_pos]
               /\ camera = [Camera_new EXCEPT !.position = CameraPosition(local_pos, world_pos)]
    /\ \E oc \in BOOLEAN :
           process = [status |-> "running", panic |-> "none", updates |-> 0,
                      inputs |-> 0, dt |-> 0, mouse |-> FALSE, overflow_checks |-> oc]
    /\ call = Idle /\ origin = Idle /\ mesh = Idle /\ terrain = Idle

NextFall == FallUpdate

SpecFall == InitFall /\ [][NextFall]_vars /\ WF_vars(FallUpdate)

---------------------------------------------------------------------------
(* World construction as src/src/lib.rs has it: create_terrain.  The slots *)
(* and the grid of chunk_gen are the source's own, unscaled.  The call     *)
(* build_chunk(&mut blocks) passes a grid and nothing else: no offsets and *)
(* no neighbour grids.                                                     *)

WORLD_SLOTS == 256

LOOP_END == 255

WORLD_ROW == 16

\* state.build_chunk(&mut blocks) as create_terrain calls it.
build_chunk_alone(blocks) == build_chunk(blocks, 0, 0, None, None, None, None)

\* What a call of build_chunk was given, for the slot it builds.
BuildRecord(slot, generated) ==
    [slot |-> slot, generated |-> generated,
     left_chunk |-> None, right_chunk |-> None, front_chunk |-> None, back_chunk |-> None]

\* create_terrain up to the loop: default_chunk, its mesh, the array of 256.
InitTerrain ==
    /\ \E default_chunk \in {chunk_gen(1)} :
         \E default_mesh \in {build_chunk_alone(default_chunk)} :
           /\ default_mesh.status = "built"
           /\ chunks = [i \in 1..WORLD_SLOTS |-> [blocks |-> chunk_gen(1), mesh |-> default_mesh]]
    /\ terrain = [i |-> 0, returned |-> FALSE, last_build |-> None]
    /\ call = Idle /\ origin = Idle /\ mesh = Idle
    /\ player = Idle /\ camera = Idle /\ process = Idle

\* One iteration of "for i in 0..255".
TerrainLoop ==
    /\ ~terrain.returned
    /\ terrain.i < LOOP_END
    /\ \E blocks \in {chunk_gen(1)} :
         \E built \in {build_chunk_alone(blocks)} :
           /\ built.status = "built"
           /\ chunks' = [chunks EXCEPT ![terrain.i + 1] = [blocks |-> blocks, mesh |-> built]]
           /\ terrain' = [terrain EXCEPT !.i = @ + 1,
                                         !.last_build = Some(BuildRecord(terrain.i, terrain.i + 1))]
    /\ UNCHANGED <<call, origin, mesh, player, camera, process>>

\* The loop is over: create_terrain returns the array.
TerrainReturn ==
    /\ ~terrain.returned
    /\ terrain.i = LOOP_END
    /\ terrain' = [terrain EXCEPT !.returned = TRUE]
    /\ UNCHANGED <<call, origin, mesh, chunks, player, camera, process>>

NextTerrain == TerrainLoop \/ TerrainReturn

create_terrain == InitTerrain /\ [][NextTerrain]_vars

---------------------------------------------------------------------------
(* Reading a built mesh back: which faces of which blocks it contains.     *)

Built == mesh.status = "built"

Panicked == mesh.status = "panic"

VertexBuffer == mesh.mesh.vertex_buffer

IndexBuffer == mesh.mesh.index_buffer

NumQuads == Len(VertexBuffer) \div 4

\* The corner positions of the k-th group of four vertices, k from 0.
QuadCorners(k) == [i \in 1..4 |-> VertexBuffer[4 * k + i].position]

\* The block (global position) and face whose corner template the k-th
\* quad is: the block centre follows from the first corner.
QuadFaces(k) ==
    LET q == QuadCorners(k)
        centre(f) == << (q[1][1] - FaceSigns(f)[1][1]) \div 2,
                        (q[1][2] - FaceSigns(f)[1][2]) \div 2,
                        (q[1][3] - FaceSigns(f)[1][3]) \div 2 >>
    IN  { <<centre(f), f>> : f \in {g \in Face : FaceCorners(g, centre(g)) = q} }

EmittedFaces == UNION { QuadFaces(k) : k \in 0..(NumQuads - 1) }

\* The positions of the grid of the call, local to the chunk.
OwnCells ==
    { <<x, y, z>> : x \in 0..(VecLen(call.blocks) - 1),
                    y \in 0..(VecLen(At(call.blocks, 0)) - 1),
                    z \in 0..(VecLen(At(At(call.blocks, 0), 0)) - 1) }

OwnBlock(c) == Blk(call.blocks, c[1], c[2], c[3])

GlobalPos(c) == <<c[1] + call.x_offset, c[2], c[3] + call.z_offset>>

\* The neighbour a face looks at, as the design states it: the block of
\* the chunk itself when the position is inside the chunk, at a lateral
\* boundary the mirrored block of the supplied neighbour chunk, and
\* nothing (None) otherwise.
InOwn(c) ==
    /\ InVec(call.blocks, c[1])
    /\ InVec(At(call.blocks, 0), c[2])
    /\ InVec(At(At(call.blocks, 0), 0), c[3])

Step(c, f) ==
    CASE f = "Top"    -> <<c[1], c[2] + 1, c[3]>>
      [] f = "Bottom" -> <<c[1], c[2] - 1, c[3]>>
      [] f = "Left"   -> <<c[1] - 1, c[2], c[3]>>
      [] f = "Right"  -> <<c[1] + 1, c[2], c[3]>>
      [] f = "Front"  -> <<c[1], c[2], c[3] + 1>>
      [] f = "Back"   -> <<c[1], c[2], c[3] - 1>>

MirrorOf(c, f) ==
    CASE f = "Left"  -> [chunk |-> call.left_chunk,  at |-> <<CHUNK_SIZE - 1, c[2], c[3]>>]
      [] f = "Right" -> [chunk |-> call.right_chunk, at |-> <<0, c[2], c[3]>>]
      [] f = "Front" -> [chunk |-> call.front_chunk, at |-> <<c[1], c[2], 0>>]
      [] f = "Back"  -> [chunk |-> call.back_chunk,  at |-> <<c[1], c[2], CHUNK_SIZE - 1>>]

ResolvedNeighbor(c, f) ==
    IF InOwn(Step(c, f)) THEN Some(OwnBlock(Step(c, f)))
    ELSE IF f \in {"Top", "Bottom"} THEN None
    ELSE LET m == MirrorOf(c, f)
         IN  IF m.chunk.some
             THEN Some(Blk(m.chunk.val, m.at[1], m.at[2], m.at[3]))
             ELSE None

ResolvedAir(c, f) ==
    LET n == ResolvedNeighbor(c, f) IN n.some /\ n.val.block_type = "Air"

ResolvedSolid(c, f) ==
    LET n == ResolvedNeighbor(c, f) IN n.some /\ n.val.block_type # "Air"

SolidCells == { c \in OwnCells : OwnBlock(c).block_type # "Air" }

---------------------------------------------------------------------------
(* Claims on the mesh builder *)

\* C1: every mesh produced by build_chunk has an index count equal to 1.5
\* times its vertex count; the vertex count is a multiple of 4 and the index
\* count a multiple of 6.
C1_IndexVertexRatio ==
    Built => /\ 2 * mesh.mesh.num_elements = 3 * Len(VertexBuffer)
             /\ mesh.mesh.num_elements = Len(IndexBuffer)
             /\ Len(VertexBuffer) % 4 = 0
             /\ Len(IndexBuffer) % 6 = 0

\* C1 witness: a mesh with geometry, built with the left neighbour supplied
\* and the right neighbour absent.
C1_Witness ==
    /\ Built
    /\ Len(VertexBuffer) > 0
    /\ call.left_chunk.some
    /\ ~call.right_chunk.some

\* C2 as stated: a face of a non-Air block is emitted iff its resolved
\* neighbour is Air, and every skipped face has a resolved neighbour that is
\* a non-Air block.
C2_FaceCullingAsStated ==
    Built =>
        LET emitted == EmittedFaces
        IN  \A c \in SolidCells, f \in Face :
                /\ (<<GlobalPos(c), f>> \in emitted) <=> ResolvedAir(c, f)
                /\ (<<GlobalPos(c), f>> \notin emitted) => ResolvedSolid(c, f)

\* C2 amended: a face of a non-Air block is emitted iff its resolved
\* neighbour exists and is Air; a skipped face has a resolved neighbour that
\* is a non-Air block, or no resolved neighbour at all.
C2_FaceCulling ==
    Built =>
        LET emitted == EmittedFaces
        IN  /\ \A c \in SolidCells, f \in Face :
                   /\ (<<GlobalPos(c), f>> \in emitted) <=> ResolvedAir(c, f)
                   /\ (<<GlobalPos(c), f>> \notin emitted) =>
                          (ResolvedSolid(c, f) \/ ~ResolvedNeighbor(c, f).some)
            /\ \A e \in emitted :
                   \E c \in SolidCells : e[1] = GlobalPos(c)

\* C2 witness: a built mesh in which a boundary face was emitted because the
\* supplied neighbour chunk has Air there, a face was skipped for want of
\* any neighbour, and a face was skipped because of a non-Air neighbour.
C2_Witness ==
    /\ Built
    /\ \E c \in SolidCells :
          /\ ~InOwn(Step(c, "Left"))
          /\ ResolvedAir(c, "Left")
          /\ <<GlobalPos(c), "Left">> \in EmittedFaces
    /\ \E c \in SolidCells : ~ResolvedNeighbor(c, "Front").some
    /\ \E c \in SolidCells : ResolvedSolid(c, "Top")

\* The blocks of the grid that have no face-sprite mapping.
UnmappedCells == { c \in OwnCells : OwnBlock(c).block_type \in {"Water", "Stone"} }

\* An unmapped block one face of which would be emitted.
ExposedUnmapped == \E c \in UnmappedCells, f \in Face : ResolvedAir(c, f)

\* C3: seam consistency.  With the chunk at offset (row, col) and its
\* neighbours chosen by the index arithmetic, the block that build_chunk
\* reads from a supplied neighbour grid for a boundary face is the block of
\* the world at the globally adjacent position, so a boundary face is
\* emitted exactly when the world has Air next to it.
InWorld(g) ==
    /\ g[1] >= 0 /\ g[1] < LATTICE * CHUNK_SIZE
    /\ g[3] >= 0 /\ g[3] < LATTICE * CHUNK_SIZE

C3_SeamConsistency ==
    (Built /\ origin.source = "world") =>
        LET emitted == EmittedFaces
        IN  \A c \in OwnCells, f \in {"Left", "Right", "Front", "Back"} :
                (/\ ~InOwn(Step(c, f))
                 /\ MirrorOf(c, f).chunk.some
                 /\ InWorld(GlobalPos(Step(c, f)))) =>
                    LET g == GlobalPos(Step(c, f))
                        adjacent == WorldBlock(origin.seed, g[1], g[2], g[3])
                    IN  /\ ResolvedNeighbor(c, f).val = adjacent
                        /\ OwnBlock(c).block_type # "Air" =>
                               ((<<GlobalPos(c), f>> \in emitted)
                                    <=> adjacent.block_type = "Air")

\* C6 as stated: a grid that contains a Water or Stone block never yields a
\* mesh, wherever the block is and whatever surrounds it.
C6_UnmappedAlwaysFatal ==
    (mesh # Pending /\ UnmappedCells # {}) => Panicked

\* C6 amended: a Water or Stone block stops the build when one of its faces
\* is to be emitted (a resolved neighbour is Air); when every face of every
\* such block is culled the build returns a mesh (grids of the world).
C6_UnmappedFatalWhenExposed ==
    /\ (mesh # Pending /\ ExposedUnmapped) => Panicked
    /\ (mesh # Pending /\ origin.source = "world") =>
          (Panicked <=> ExposedUnmapped)
    /\ Panicked /\ origin.source = "world" => mesh.panic = "todo"

\* C6 witness: the build of a grid with an exposed Water or Stone block has
\* stopped at the todo!() arm.
C6_Witness ==
    /\ Panicked
    /\ mesh.panic = "todo"
    /\ ExposedUnmapped

\* C7: the mesh of chunk 0 built from the grids of chunk_gen, with no front
\* and no right neighbour, is built without a panic and has no face on the
\* front (z + 1) and right (x + 1) boundaries.
C7_EdgeChunkBuilds ==
    (mesh # Pending /\ origin.source = "chunk_gen") =>
        /\ Built
        /\ \A c \in OwnCells, f \in {"Front", "Right"} :
               ~InOwn(Step(c, f)) => <<GlobalPos(c), f>> \notin EmittedFaces

\* The grid of the call is flat: Grass below height h, Air from h up.
FlatAt(h) ==
    \A c \in OwnCells :
        OwnBlock(c).block_type = (IF c[2] < h THEN "Grass" ELSE "Air")

IsFlat == \E h \in 1..(CHUNK_HEIGHT - 1) : FlatAt(h)

\* C8: for a flat chunk (0 < h < chunk height) build_chunk emits exactly one
\* Top face per column, no face between two columns of the chunk and no
\* Bottom face; a lateral face is on the outer boundary of the grid, where
\* the supplied neighbour chunk has Air.
C8_FlatChunk ==
    (Built /\ IsFlat) =>
        LET emitted == EmittedFaces
            h == CHOOSE k \in 1..(CHUNK_HEIGHT - 1) : FlatAt(k)
        IN  /\ \A c \in OwnCells :
                   (<<GlobalPos(c), "Top">> \in emitted) <=> (c[2] = h - 1)
            /\ \A c \in OwnCells : <<GlobalPos(c), "Bottom">> \notin emitted
            /\ \A c \in OwnCells, f \in {"Left", "Right", "Front", "Back"} :
                   (<<GlobalPos(c), f>> \in emitted) =>
                       /\ ~InOwn(Step(c, f))
                       /\ MirrorOf(c, f).chunk.some
                       /\ ResolvedAir(c, f)
            /\ NumQuads = Cardinality(emitted)
            /\ \A e \in emitted : \E c \in OwnCells : e[1] = GlobalPos(c)

\* C8 witness: a flat chunk whose mesh has a lateral face on the boundary.
C8_Witness ==
    /\ Built
    /\ IsFlat
    /\ \E e \in EmittedFaces : e[2] \in {"Left", "Right", "Front", "Back"}

\* C9: every texture coordinate of every vertex of a built mesh lies in
\* [0, 1] on both axes, that is in 0..NUM_SPRITES_IN_TEXTURE sixteenths.
C9_TexCoordsInUnitSquare ==
    Built =>
        \A i \in 1..Len(VertexBuffer) :
            /\ VertexBuffer[i].tex_coords[1] \in 0..NUM_SPRITES_IN_TEXTURE
            /\ VertexBuffer[i].tex_coords[2] \in 0..NUM_SPRITES_IN_TEXTURE

\* C9 witness: a mesh that uses the three sprites the mapper can select
\* (the first corner of sprite n has u = n).
C9_Witness ==
    /\ Built
    /\ \A n \in {1, 2, 3} :
          \E k \in 0..(NumQuads - 1) : VertexBuffer[4 * k + 1].tex_coords = <<n, 0>>

\* C4: after any completed call of update_player every component of
\* local_pos lies in [-1, 1).
C4_LocalPosNormalized ==
    (process.status = "running" /\ process.updates > 0) =>
        \A a \in {"x", "y", "z"} :
            /\ player.local_pos[a] >= -POS_SCALE
            /\ player.local_pos[a] < POS_SCALE

\* The chunk index of a position and whether one of the four neighbour
\* indices computed from it leaves the lattice: below 0, past the last
\* index, or across the edge of a row.
ChunkIndexOf(wp) == (wp.z \div CHUNK_SIZE) + (LATTICE * (wp.x \div CHUNK_SIZE))

LeavesLattice(i) ==
    \/ FrontIndex(i) < 0
    \/ RightIndex(i) < 0
    \/ BackIndex(i) >= NUM_CHUNKS
    \/ LeftIndex(i) >= NUM_CHUNKS
    \/ i % LATTICE = LATTICE - 1
    \/ i % LATTICE = 0

\* C5: an update whose chunk-index computation leaves the lattice ends with
\* a fatal bounds violation; it never reads another chunk as the neighbour.
C5_OffLatticeIsFatal ==
    [][ (/\ process.status = "running"
         /\ process'.updates = process.updates + 1
         /\ LeavesLattice(ChunkIndexOf(player.world_pos)))
            => process'.status = "panicked" ]_vars

\* The lateral neighbours of a slot of the 16 x 16 lattice.
SlotNeighbors(i) ==
    [front_chunk |-> IF i - WORLD_ROW >= 0 THEN Some(i - WORLD_ROW) ELSE None,
     back_chunk |-> IF i + WORLD_ROW < WORLD_SLOTS THEN Some(i + WORLD_ROW) ELSE None,
     left_chunk |-> IF (i + 1) % WORLD_ROW # 0 THEN Some(i + 1) ELSE None,
     right_chunk |-> IF i % WORLD_ROW # 0 THEN Some(i - 1) ELSE None]

\* C10: world construction is two-pass and complete.  Every slot holds a
\* chunk when create_terrain returns, and whenever the mesh of slot i is
\* built the grid of each existing lateral neighbour has been generated and
\* is what the build is given for that side.
C10_TwoPassConstruction ==
    /\ terrain.returned =>
          \A i \in 1..WORLD_SLOTS : chunks[i].blocks # <<>> /\ chunks[i].mesh.status = "built"
    /\ terrain.last_build.some =>
          LET b == terrain.last_build.val
              n == SlotNeighbors(b.slot)
          IN  \A side \in {"front_chunk", "back_chunk", "left_chunk", "right_chunk"} :
                  n[side].some =>
                      /\ n[side].val < b.generated
                      /\ b[side] = Some(chunks[n[side].val + 1].blocks)

\* C13: every emitted face appends 4 vertices and the 6 indices base + 3,
\* base + 2, base, base + 1, base + 2, base + 3, base being the number of
\* vertices before the face; a face that is not emitted appends nothing; so
\* every index of a built mesh is smaller than the vertex count.
C13_QuadIndices ==
    Built =>
        LET n == Cardinality({ cf \in SolidCells \X Face : ResolvedAir(cf[1], cf[2]) })
        IN  /\ Len(VertexBuffer) = 4 * n
            /\ Len(IndexBuffer) = 6 * n
            /\ \A k \in 0..(n - 1) :
                   SubSeq(IndexBuffer, 6 * k + 1, 6 * k + 6)
                       = << 4 * k + 3, 4 * k + 2, 4 * k, 4 * k + 1, 4 * k + 2, 4 * k + 3 >>
            /\ \A i \in 1..Len(IndexBuffer) : IndexBuffer[i] < Len(VertexBuffer)

\* C13 witness: a mesh of several faces, so that base is not 0.
C13_Witness ==
    /\ Built
    /\ NumQuads >= 3
    /\ IndexBuffer[13] = 11

\* The sprite of the k-th quad: its first corner has u = sprite, v = 0.
QuadSprite(k) == VertexBuffer[4 * k + 1].tex_coords[1]

\* Whether the block above a block of the grid is in the grid and is Grass.
GrassAbove(g) ==
    LET up == <<g[1] - call.x_offset, g[2] + 1, g[3] - call.z_offset>>
    IN  InOwn(up) /\ OwnBlock(up).block_type = "Grass"

\* C14: a Grass block has sprite 3 on its Top face, 1 on its Bottom face
\* and on a lateral face 1 when the block above it in the chunk is Grass
\* and 2 otherwise.
C14_GrassSprites ==
    Built =>
        \A k \in 0..(NumQuads - 1) :
            \A gf \in QuadFaces(k) :
                QuadSprite(k) = (CASE gf[2] = "Top" -> 3
                                   [] gf[2] = "Bottom" -> 1
                                   [] OTHER -> IF GrassAbove(gf[1]) THEN 1 ELSE 2)

\* C14 witness: a mesh with a Top face, a Bottom face, a lateral face of a
\* block below Grass and a lateral face of a topmost block.
C14_Witness ==
    /\ Built
    /\ \E k \in 0..(NumQuads - 1) : \E gf \in QuadFaces(k) : gf[2] = "Top"
    /\ \E k \in 0..(NumQuads - 1) : \E gf \in QuadFaces(k) :
           gf[2] = "Bottom"
    /\ \E k \in 0..(NumQuads - 1) : \E gf \in QuadFaces(k) :
           gf[2] \in {"Left", "Right", "Front", "Back"} /\ GrassAbove(gf[1])
    /\ \E k \in 0..(NumQuads - 1) : \E gf \in QuadFaces(k) :
           gf[2] \in {"Left", "Right", "Front", "Back"} /\ ~GrassAbove(gf[1])

\* C11: no event of the player changes the world: over any sequence of key
\* events, mouse events and updates the block grid of every chunk stays
\* what it was after world construction.
C11_WorldUnchanged == [][chunks' = chunks]_vars

\* C11 witness: the player has taken events and updates and has moved.
C11_Witness ==
    /\ process.status = "running"
    /\ process.updates >= 2
    /\ process.inputs >= 2
    /\ player.world_pos # Player_new(SPEED, SENSITIVITY).world_pos
    /\ \E seed \in 0..MaxSeed : chunks = PlayerWorld(seed)

\* A player update has completed and nothing has panicked since.
UpdateCompleted == process.status = "running" /\ process.updates > 0

\* C12: after every update that completes, the camera position is
\* world_pos + local_pos on each axis, with the values both have at the end
\* of that update.
C12_CameraFollowsPlayer ==
    UpdateCompleted =>
        \A a \in {"x", "y", "z"} :
            camera.position[a] = player.world_pos[a] * POS_SCALE + player.local_pos[a]

\* C12 witness: an update has completed after the player moved to another
\* block and fell by a part of a block.
C12_Witness ==
    /\ UpdateCompleted
    /\ player.world_pos.x # Player_new(SPEED, SENSITIVITY).world_pos.x
    /\ player.local_pos.y # Player_new(SPEED, SENSITIVITY).local_pos.y
    /\ camera.position # Camera_new.position

\* The step is a player update, and the update completes.
UpdateStep == process'.updates = process.updates + 1 /\ process'.status = "running"

\* C18: the mouse rotation is consumed once: after every update that
\* completes rotate_horizontal and rotate_vertical are zero, and an update
\* with no mouse event since the update before it (or since construction)
\* leaves yaw and pitch as they were.
C18_MouseConsumedOnce ==
    [][UpdateStep =>
          /\ player'.rotate_horizontal = 0
          /\ player'.rotate_vertical = 0
          /\ ~process.mouse => (camera'.yaw = camera.yaw /\ camera'.pitch = camera.pitch)]_vars

\* C18 witness: a mouse event has turned the camera in one update, and a
\* later update with no mouse event has completed.
C18_Witness ==
    /\ UpdateCompleted
    /\ process.updates >= 2
    /\ process.inputs = 1
    /\ ~process.mouse
    /\ camera.yaw # Camera_new.yaw
    /\ camera.pitch # Camera_new.pitch
    /\ player.rotate_horizontal = 0
    /\ player.rotate_vertical = 0

\* C19: after every update that completes the camera pitch lies within
\* -SAFE_FRAC_PI_2 .. SAFE_FRAC_PI_2, strictly inside a quarter turn up
\* and down.
C19_PitchClamped ==
    UpdateCompleted =>
        /\ -SAFE_FRAC_PI_2 <= camera.pitch
        /\ camera.pitch <= SAFE_FRAC_PI_2
        /\ -FRAC_PI_2 < camera.pitch
        /\ camera.pitch < FRAC_PI_2

\* C19 witness: a mouse delta bigger than the room left has been clamped
\* at the upper limit.
C19_Witness ==
    /\ UpdateCompleted
    /\ camera.pitch = SAFE_FRAC_PI_2

\* The displacement an update step asks for, from the held keys, the yaw
\* and the frame time of the step.
FrameMove ==
    LET step == (player.speed * process'.dt * POS_SCALE) \div TICKS_PER_SECOND
        ahead == player.amount_forward - player.amount_backward
        aside == player.amount_right - player.amount_left
    IN  [x |-> (Cos(camera.yaw) * ahead - Sin(camera.yaw) * aside) * step,
         y |-> 0,
         z |-> (Sin(camera.yaw) * ahead + Cos(camera.yaw) * aside) * step]

\* The fall of one frame.
FrameFall == (player.fall_speed * process'.dt * POS_SCALE) \div TICKS_PER_SECOND

\* The step leaves axis a as the boundary transfer leaves the offset pre:
\* one block carried into world_pos when pre is past +1 or -1, none when
\* it is within.
Transferred(a, pre) ==
    IF pre > POS_SCALE
    THEN player'.world_pos[a] = player.world_pos[a] + 1 /\ player'.local_pos[a] = pre - POS_SCALE
    ELSE IF pre < -POS_SCALE
    THEN player'.world_pos[a] = player.world_pos[a] - 1 /\ player'.local_pos[a] = pre + POS_SCALE
    ELSE player'.world_pos[a] = player.world_pos[a] /\ player'.local_pos[a] = pre

\* C15: boundary transfer.  In an update that completes, on each axis the
\* offset the update arrives at (the old one, or the old one plus the
\* frame's displacement or minus the frame's fall) is carried over as
\* follows: past +1 or below -1, world_pos changes by exactly +1 or -1 and
\* local_pos by the opposite block, so that their sum is that of the
\* offset arrived at; within the range, world_pos is unchanged.
C15_BoundaryTransfer ==
    [][UpdateStep =>
          /\ \E pre \in {player.local_pos.x, player.local_pos.x + FrameMove.x} : Transferred("x", pre)
          /\ \E pre \in {player.local_pos.z, player.local_pos.z + FrameMove.z} : Transferred("z", pre)
          /\ \E pre \in {player.local_pos.y, player.local_pos.y - FrameFall} : Transferred("y", pre)]_vars

\* C16: when the collision check rejects the motion toward the probed side
\* (the offset on x is below the threshold, the frame asks for motion
\* toward +x, and the update leaves x where it was), the other horizontal
\* component of the frame's displacement is still applied.
C16_OnlyBlockedComponentWithheld ==
    [][(/\ UpdateStep
        /\ player.local_pos.x < POS_SCALE \div 10
        /\ FrameMove.x > POS_SCALE \div 100
        /\ player'.local_pos.x = player.local_pos.x
        /\ player'.world_pos.x = player.world_pos.x)
          => Transferred("z", player.local_pos.z + FrameMove.z)]_vars

\* The block the gravity step of an update step reads: two cells below
\* the player in cur_chunk, the chunk resolved at the start of the update,
\* at the x and z the horizontal move leaves.
BlockBelow ==
    chunks[ChunkIndexOf(player.world_pos) + 1].blocks
        [(player'.world_pos.x % CHUNK_SIZE) + 1][player.world_pos.y - 1][(player'.world_pos.z % CHUNK_SIZE) + 1]

\* C17: gravity.  In an update that completes, if the block two cells
\* below in the current chunk is Air, local_pos.y decreases by
\* fall_speed * dt and at most one unit is carried into world_pos.y; if it
\* is not Air, local_pos.y and world_pos.y are unchanged.
C17_Gravity ==
    [][UpdateStep =>
          IF BlockBelow.block_type = "Air"
          THEN LET fallen == player.local_pos.y - FrameFall
               IN  \/ /\ fallen < -POS_SCALE
                      /\ player'.local_pos.y = fallen + POS_SCALE
                      /\ player'.world_pos.y = player.world_pos.y - 1
                   \/ /\ fallen >= -POS_SCALE
                      /\ player'.local_pos.y = fallen
                      /\ player'.world_pos.y = player.world_pos.y
          ELSE /\ player'.local_pos.y = player.local_pos.y
               /\ player'.world_pos.y = player.world_pos.y]_vars

\* C17 witness: the update has let the player fall by more than a block
\* and has carried one unit into world_pos.y, leaving the rest.
C17_Witness ==
    /\ process.status = "running"
    /\ process.updates = MaxUpdates
    /\ player.world_pos.y = 1
    /\ player.local_pos.y < -POS_SCALE

\* C20: for every world_pos inside the world, chunks on the edge of the
\* lattice included, the update completes: no chunk or block access is
\* out of range.
C20_UpdateCompletesInWorld == process.status # "panicked"

\* The update step has changed the player's height.
Fell ==
    \/ player'.local_pos.y # player.local_pos.y
    \/ player'.world_pos.y # player.world_pos.y

\* The horizontal move of the update step has carried world_pos into
\* another chunk of the lattice.
ChangedChunk ==
    /\ InWorld(<<player'.world_pos.x, player'.world_pos.y, player'.world_pos.z>>)
    /\ ChunkIndexOf(player'.world_pos) # ChunkIndexOf(player.world_pos)

\* The block two cells below the position the horizontal move leaves, in
\* the chunk that contains that position.
BlockBelowNewPos ==
    chunks[ChunkIndexOf(player'.world_pos) + 1].blocks
        [(player'.world_pos.x % CHUNK_SIZE) + 1][player.world_pos.y - 1][(player'.world_pos.z % CHUNK_SIZE) + 1]

\* C21: when the horizontal boundary transfer of an update carries
\* world_pos into another chunk, gravity acts on the block two cells below
\* the new position in the chunk that contains it: the player falls in
\* that update exactly if that block is Air.
C21_GravityProbeAfterMove ==
    [][(UpdateStep /\ ChangedChunk) => (Fell <=> BlockBelowNewPos.block_type = "Air")]_vars

\* The surface height of the column the player is over: the number of
\* blocks of the column that are not Air (the columns of the world are
\* solid from layer 0 up to the surface).
ColumnHeight ==
    LET wp == player.world_pos
        column == chunks[ChunkIndexOf(wp) + 1].blocks[(wp.x % CHUNK_SIZE) + 1]
    IN  Cardinality({y1 \in 1..CHUNK_HEIGHT :
                        column[y1][(wp.z % CHUNK_SIZE) + 1].block_type # "Air"})

\* The player is over a column of surface height 1 or more, at or above
\* the place falling ends at, and the updates go on.
AboveSurface ==
    /\ process.status = "running"
    /\ ColumnHeight >= 1
    /\ player.world_pos.y >= ColumnHeight + 1

Landed == player.world_pos.y = ColumnHeight + 1

GlobalBlock(gx, gy, gz) ==
    chunks[ChunkIndexOf([x |-> gx, z |-> gz]) + 1].blocks
        [(gx % CHUNK_SIZE) + 1][gy + 1][(gz % CHUNK_SIZE) + 1]

\* The update step was asked to move toward +x from below the threshold,
\* which is when the collision check decides by the probed blocks alone.
ProbeDecides ==
    /\ UpdateStep
    /\ player.local_pos.x < POS_SCALE \div 10
    /\ FrameMove.x > POS_SCALE \div 100

\* The update step has withheld the motion on x.
Withheld ==
    /\ player'.local_pos.x = player.local_pos.x
    /\ player'.world_pos.x = player.world_pos.x

\* C23: the two blocks probed by the collision check are those at the
\* global positions (x, y-1, z-1) and (x, y, z-1), in the same chunk when
\* z % 16 > 0 and in the chunk adjacent on the z-1 side when z % 16 = 0:
\* when the probe decides, the motion is withheld exactly if one of these
\* two blocks is solid.
C23_ProbedBlocks ==
    [][(ProbeDecides /\ player.world_pos.z >= 1) =>
          (Withheld <=>
              \/ GlobalBlock(player.world_pos.x, player.world_pos.y - 1, player.world_pos.z - 1).is_solid
              \/ GlobalBlock(player.world_pos.x, player.world_pos.y, player.world_pos.z - 1).is_solid)]_vars

====
